---- MODULE Spec2Model ----
(***************************************************************************)
(* The failure model of the elvish evaluator (eval/exception.go):          *)
(* Exception, PipelineError, Flow and ExternalCmdExit, with the pure       *)
(* functions that render and decode them, and the pipeline that fills the  *)
(* per-stage slots a PipelineError holds.                                  *)
(*                                                                         *)
(* Go strings are TLA+ strings.  A call that does not return (a nil        *)
(* dereference panic, a fatal stack overflow) yields one of the two crash  *)
(* values below, and Cat propagates a crash of either operand the way the  *)
(* Go expression a + b does.                                               *)
(***************************************************************************)
EXTENDS Integers, Sequences, FiniteSets, TLC

VARIABLES
    pc,        \* where the scenario stands
    errors,    \* pipeline: the slot array, one *Exception per stage
    produced,  \* pipeline: what each stage yielded when it completed
    finished,  \* pipeline: the stages in the order they completed
    result,    \* pipeline: the aggregated Exception, once joined
    caller,    \* exit decoder: "wait" (a raw OS status) or "fake" (synthetic)
    name,      \* exit decoder: the command's display name
    ws,        \* exit decoder: the raw syscall.WaitStatus (uint32)
    pid,       \* exit decoder: the process id handed to the decoder
    exit,      \* exit decoder: exit code given to FakeExternalCmdExit
    sig,       \* exit decoder: signal given to FakeExternalCmdExit
    ret,       \* exit decoder: the constructor's return value
    exc,       \* value scenario: the *Exception under observation
    indent,    \* the indent argument of Repr
    op,        \* the last observation made ("none" before any)
    out        \* what that observation returned

vars == <<pc, errors, produced, finished, result, caller, name, ws, pid,
          exit, sig, ret, exc, indent, op, out>>

---------------------------------------------------------------------------
(* Bounds of the model *)

MaxStages == 3
MaxRawStatus == 300
MaxExitCode == 3
MaxSignal == 12
MaxFlowTag == 4
MaxGoStack == 3

---------------------------------------------------------------------------
(* Values *)

\* A nil *Exception.
NilPtr == [kind |-> "nilptr"]

\* A nil error interface value.
NilCause == [kind |-> "nil"]

NilTraceback == "nil"

Exception(cause, tb) == [kind |-> "Exception", Cause |-> cause, Traceback |-> tb]

OK == Exception(NilCause, NilTraceback)

\* errors.New(msg): a plain error that is neither Reprer nor Pprinter.
PlainError(msg) == [kind |-> "error", msg |-> msg]

Flow(f) == [kind |-> "Flow", f |-> f]

Return == 0

Break == 1

Continue == 2

flowNames == <<"return", "break", "continue">>

PipelineError(es) == [kind |-> "PipelineError", Errors |-> es]

ExternalCmdExit(w, n, p) ==
    [kind |-> "ExternalCmdExit", WaitStatus |-> w, CmdName |-> n, Pid |-> p]

---------------------------------------------------------------------------
(* Calls that do not return *)

NilDeref == "panic: runtime error: invalid memory address or nil pointer dereference"

StackOverflow == "fatal error: stack overflow"

Crashed(s) == s \in {NilDeref, StackOverflow}

\* a + b on strings, the left operand evaluated first.
Cat(a, b) == IF Crashed(a) THEN a ELSE IF Crashed(b) THEN b ELSE a \o b

---------------------------------------------------------------------------
(* Library functions the code calls *)

\* parse.Quote: the language's string quoting, kept abstract.
Quote(s) == "<q:" \o s \o ">"

\* strconv.Itoa, and fmt's %d and %v of an integer.
Itoa(n) == ToString(n)

RECURSIVE Repeat(_, _)
Repeat(s, n) == IF n <= 0 THEN "" ELSE s \o Repeat(s, n - 1)

\* syscall.WaitStatus on Linux: mask 0x7F, core 0x80, exited 0x00,
\* stopped 0x7F, shift 8.
Exited(w) == w % 128 = 0

Stopped(w) == w % 256 = 127

Signaled(w) == w % 128 # 127 /\ w % 128 # 0

CoreDump(w) == Signaled(w) /\ (w \div 128) % 2 = 1

ExitStatus(w) == IF ~Exited(w) THEN -1 ELSE (w \div 256) % 256

Signal(w) == IF ~Signaled(w) THEN -1 ELSE w % 128

StopSignal(w) == IF ~Stopped(w) THEN -1 ELSE (w \div 256) % 256

SIGTRAP == 5

TrapCause(w) == IF StopSignal(w) # SIGTRAP THEN -1 ELSE (w \div 256) \div 256

signals ==
    <<"hangup", "interrupt", "quit", "illegal instruction",
      "trace/breakpoint trap", "aborted", "bus error",
      "floating point exception", "killed", "user defined signal 1",
      "segmentation fault", "user defined signal 2", "broken pipe",
      "alarm clock", "terminated", "stack fault", "child exited",
      "continued", "stopped (signal)", "stopped", "stopped (tty input)",
      "stopped (tty output)", "urgent I/O condition",
      "CPU time limit exceeded", "file size limit exceeded",
      "virtual timer expired", "profiling timer expired", "window changed",
      "I/O possible", "power failure", "bad system call">>

\* syscall.Signal.String.
SignalString(s) ==
    IF 1 <= s /\ s <= Len(signals) THEN signals[s] ELSE "signal " \o Itoa(s)

---------------------------------------------------------------------------
(* Flow *)

\* f.Error() entered with `depth` frames of the same call already on the
\* stack.  Flow has an Error method, so fmt formats the operand f under %v
\* by calling f.Error(); the goroutine's stack is finite.
RECURSIVE Flow_ErrorAt(_, _)
Flow_ErrorAt(f, depth) ==
    IF f >= Len(flowNames)
    THEN IF depth >= MaxGoStack
         THEN StackOverflow
         ELSE Cat(Cat("!(BAD FLOW: ", Flow_ErrorAt(f, depth + 1)), ")")
    ELSE flowNames[f + 1]

Flow_Error(f) == Flow_ErrorAt(f, 0)

Flow_Repr(f, ind) == Cat(Cat("?(", Flow_Error(f)), ")")

---------------------------------------------------------------------------
(* ExternalCmdExit *)

\* Fault injection: every normal exit counts as success, whatever its code.
NewExternalCmdExit_AnyExit(n, w, p) ==
    IF Exited(w)
    THEN NilCause
    ELSE ExternalCmdExit(w, n, IF ~Stopped(w) THEN 0 ELSE p)

\* Fault injection: the pid is kept for every failure.
NewExternalCmdExit_KeepPid(n, w, p) ==
    IF Exited(w) /\ ExitStatus(w) = 0
    THEN NilCause
    ELSE ExternalCmdExit(w, n, p)

NewExternalCmdExit(n, w, p) ==
    IF Exited(w) /\ ExitStatus(w) = 0
    THEN NilCause
    ELSE ExternalCmdExit(w, n, IF ~Stopped(w) THEN 0 ELSE p)

\* exit<<8 + int(sig).  The conversion to the uint32 WaitStatus leaves a sum
\* within 0 .. 2^31 - 1 as it is, and the exit codes and signals drawn here
\* (at most 255 and 127) keep it there.
FakeExternalCmdExit(n, e, s) == ExternalCmdExit(e * 256 + s, n, 0)

\* Fault injection: a trap cause of 0 is taken for no trap cause.
ExternalCmdExit_Error_TrapNonZero(x) ==
    LET w == x.WaitStatus
        quotedName == Quote(x.CmdName)
    IN  IF Exited(w)
        THEN quotedName \o " exited with " \o Itoa(ExitStatus(w))
        ELSE IF Signaled(w)
        THEN LET msg == quotedName \o " killed by signal " \o SignalString(Signal(w))
             IN  IF CoreDump(w) THEN msg \o " (core dumped)" ELSE msg
        ELSE IF Stopped(w)
        THEN LET msg == quotedName \o " stopped by signal "
                            \o SignalString(StopSignal(w))
                            \o " (pid=" \o Itoa(x.Pid) \o ")"
                 trap == TrapCause(w)
             IN  IF trap > 0 THEN msg \o " (trapped " \o Itoa(trap) \o ")" ELSE msg
        ELSE quotedName \o " has unknown WaitStatus " \o Itoa(w)

ExternalCmdExit_Error(x) ==
    LET w == x.WaitStatus
        quotedName == Quote(x.CmdName)
    IN  IF Exited(w)
        THEN quotedName \o " exited with " \o Itoa(ExitStatus(w))
        ELSE IF Signaled(w)
        THEN LET msg == quotedName \o " killed by signal " \o SignalString(Signal(w))
             IN  IF CoreDump(w) THEN msg \o " (core dumped)" ELSE msg
        ELSE IF Stopped(w)
        THEN LET msg == quotedName \o " stopped by signal "
                            \o SignalString(StopSignal(w))
                            \o " (pid=" \o Itoa(x.Pid) \o ")"
                 trap == TrapCause(w)
             IN  IF trap # -1 THEN msg \o " (trapped " \o Itoa(trap) \o ")" ELSE msg
        ELSE quotedName \o " has unknown WaitStatus " \o Itoa(w)

---------------------------------------------------------------------------
(* Exception and PipelineError *)

RECURSIVE Exception_Error(_)
RECURSIVE Exception_Repr(_, _)
RECURSIVE PipelineError_Error(_)
RECURSIVE PipelineError_Repr(_, _)
RECURSIVE Cause_Error(_)
RECURSIVE ErrorLoop(_, _, _)
RECURSIVE ReprLoop(_, _, _, _)

\* cause.Error(), dispatched on the dynamic type of the error value.
Cause_Error(c) ==
    IF c.kind = "nil" THEN NilDeref
    ELSE IF c.kind = "error" THEN c.msg
    ELSE IF c.kind = "Flow" THEN Flow_Error(c.f)
    ELSE IF c.kind = "ExternalCmdExit" THEN ExternalCmdExit_Error(c)
    ELSE PipelineError_Error(c)

Exception_Error(e) == IF e = NilPtr THEN NilDeref ELSE Cause_Error(e.Cause)

\* Fault injection: only Flow is taken to have Repr.
IsReprer_FlowOnly(c) == c.kind = "Flow"

\* The type assertion exc.Cause.(Reprer): Flow and PipelineError have Repr.
IsReprer(c) == c.kind \in {"Flow", "PipelineError"}

Exception_Repr(e, ind) ==
    IF e = NilPtr THEN NilDeref
    ELSE IF e.Cause = NilCause THEN "$ok"
    ELSE IF IsReprer(e.Cause)
    THEN IF e.Cause.kind = "Flow"
         THEN Flow_Repr(e.Cause.f, ind)
         ELSE PipelineError_Repr(e.Cause, ind)
    ELSE LET m == Cause_Error(e.Cause)
         IN  IF Crashed(m) THEN m ELSE "?(error " \o Quote(m) \o ")"

Exception_Bool(e) == IF e = NilPtr THEN NilDeref ELSE e.Cause = NilCause

\* The range loop of PipelineError.Repr from element i on, b the buffer.
ReprLoop(es, i, b, ind) ==
    IF i > Len(es) \/ Crashed(b) THEN b
    ELSE LET elemIndent == ind + Len("?(multi-error ")
             b1 == IF ind > 0
                   THEN b \o "\n" \o Repeat(" ", elemIndent)
                   ELSE b \o " "
         IN  ReprLoop(es, i + 1, Cat(b1, Exception_Repr(es[i], elemIndent)), ind)

PipelineError_Repr(pe, ind) == Cat(ReprLoop(pe.Errors, 1, "?(multi-error", ind), ")")

\* Fault injection: the separator is written before every slot, the first
\* included.
RECURSIVE ErrorLoop_SeparatorFirst(_, _, _)
ErrorLoop_SeparatorFirst(es, i, b) ==
    IF i > Len(es) \/ Crashed(b) THEN b
    ELSE LET b1 == b \o " | "
             b2 == IF es[i] = NilPtr \/ es[i].Cause = NilCause
                   THEN b1 \o "<nil>"
                   ELSE Cat(b1, Exception_Error(es[i]))
         IN  ErrorLoop_SeparatorFirst(es, i + 1, b2)

\* The range loop of PipelineError.Error from element i on, b the buffer.
ErrorLoop(es, i, b) ==
    IF i > Len(es) \/ Crashed(b) THEN b
    ELSE LET b1 == IF i > 1 THEN b \o " | " ELSE b
             b2 == IF es[i] = NilPtr \/ es[i].Cause = NilCause
                   THEN b1 \o "<nil>"
                   ELSE Cat(b1, Exception_Error(es[i]))
         IN  ErrorLoop(es, i + 1, b2)

PipelineError_Error(pe) == Cat(ErrorLoop(pe.Errors, 1, "("), ")")

\* Fault injection: the loop stops one element short.
RECURSIVE allokFrom_OneShort(_, _)
allokFrom_OneShort(es, i) ==
    IF i >= Len(es) THEN TRUE
    ELSE IF es[i] # NilPtr /\ es[i].Cause # NilCause THEN FALSE
    ELSE allokFrom_OneShort(es, i + 1)

\* Fault injection: the verdict rests on the first element alone.
allok_FirstOnly(es) == Len(es) = 0 \/ es[1] = NilPtr \/ es[1].Cause = NilCause

\* The range loop of allok from element i on.
RECURSIVE allokFrom(_, _)
allokFrom(es, i) ==
    IF i > Len(es) THEN TRUE
    ELSE IF es[i] # NilPtr /\ es[i].Cause # NilCause THEN FALSE
    ELSE allokFrom(es, i + 1)

allok(es) == allokFrom(es, 1)

\* The pipeline's aggregation of its stage results.
Aggregate(es) == IF allok(es) THEN OK ELSE Exception(PipelineError(es), NilTraceback)

---------------------------------------------------------------------------
(* Inputs *)

CmdNames == {"ls", "my cmd"}

Pids == {0, 4242}

Indents == {0, 2}

\* Raw statuses: every low pattern, and the shapes past MaxRawStatus:
\* exit 255, stopped by SIGTRAP (plain and with a ptrace event), stopped by
\* SIGSTOP, continued (0xFFFF), bits above the exit code, signal 34 and a
\* core dump of SIGSEGV one byte up.
RawStatuses ==
    (0..MaxRawStatus) \cup {512, 65280, 1407, 198015, 4991, 65535, 65536, 511, 395}

errA == Exception(PlainError("errA"), "tb1")

errExit == Exception(ExternalCmdExit(512, "ls", 0), NilTraceback)

\* What a pipeline stage can leave in its slot.
StageOutcomes == {NilPtr, OK, errA, errExit}

\* The Exceptions the value scenario observes.
Exceptions ==
    {OK, Exception(NilCause, "tb1"), errA, errExit,
     Exception(PlainError(""), NilTraceback),
     Exception(ExternalCmdExit(139, "my cmd", 0), NilTraceback),
     Exception(ExternalCmdExit(4991, "ls", 4242), "tb1")}
    \cup {Exception(Flow(f), NilTraceback) : f \in 0..MaxFlowTag}
    \cup {Exception(PipelineError(es), NilTraceback) :
            es \in {<<OK, errA>>, <<errA, errExit, OK>>, <<errExit>>,
                    <<NilPtr, errA>>,
                    <<Exception(Flow(Break), NilTraceback), errA>>,
                    <<Exception(PipelineError(<<errA, OK>>), NilTraceback), errExit>>}}

NoValue == [kind |-> "none"]

---------------------------------------------------------------------------
(* The pipeline: N stages run concurrently, each fills its own slot, and the
   results are aggregated after all of them completed. *)

PipelineIdle ==
    /\ caller = "none" /\ name = "" /\ ws = 0 /\ pid = 0 /\ exit = 0 /\ sig = 0
    /\ ret = NoValue /\ exc = NoValue

InitPipeline ==
    /\ pc = "running"
    /\ \E n \in 0..MaxStages :
          /\ errors = [i \in 1..n |-> NilPtr]
          /\ produced = [i \in 1..n |-> NoValue]
    /\ finished = <<>>
    /\ result = NoValue
    /\ indent \in Indents
    /\ op = "none" /\ out = ""
    /\ PipelineIdle

Done(i) == \E k \in 1..Len(finished) : finished[k] = i

\* Stage i completes and stores its result in slot i.
StageFinish(i) ==
    /\ pc = "running"
    /\ ~Done(i)
    /\ \E e \in StageOutcomes :
          /\ errors' = [errors EXCEPT ![i] = e]
          /\ produced' = [produced EXCEPT ![i] = e]
    /\ finished' = Append(finished, i)
    /\ UNCHANGED <<pc, result, caller, name, ws, pid, exit, sig, ret, exc,
                   indent, op, out>>

\* The join: every stage has completed, the slots are aggregated.
Join ==
    /\ pc = "running"
    /\ \A i \in 1..Len(errors) : Done(i)
    /\ result' = Aggregate(errors)
    /\ pc' = "joined"
    /\ UNCHANGED <<errors, produced, finished, caller, name, ws, pid, exit, sig,
                   ret, exc, indent, op, out>>

\* The evaluator reports a failed pipeline by its message.
PipelineShowError ==
    /\ pc = "joined" /\ op = "none"
    /\ result.Cause # NilCause
    /\ out' = Exception_Error(result)
    /\ op' = "Error"
    /\ UNCHANGED <<pc, errors, produced, finished, result, caller, name, ws, pid,
                   exit, sig, ret, exc, indent>>

\* The pipeline's result is shown as a value.
PipelineShowRepr ==
    /\ pc = "joined" /\ op = "none"
    /\ out' = Exception_Repr(result, indent)
    /\ op' = "Repr"
    /\ UNCHANGED <<pc, errors, produced, finished, result, caller, name, ws, pid,
                   exit, sig, ret, exc, indent>>

NextPipeline ==
    \/ \E i \in 1..Len(errors) : StageFinish(i)
    \/ Join
    \/ PipelineShowError
    \/ PipelineShowRepr

---------------------------------------------------------------------------
(* The process exit decoder *)

ExitIdle ==
    /\ errors = <<>> /\ produced = <<>> /\ finished = <<>> /\ result = NoValue
    /\ exc = NoValue /\ indent = 0

InitExit ==
    /\ pc = "start"
    /\ name \in CmdNames
    /\ \/ /\ caller = "wait"
          /\ ws \in RawStatuses
          /\ pid \in Pids
          /\ exit = 0 /\ sig = 0
       \/ /\ caller = "fake"
          /\ exit \in (0..MaxExitCode) \cup {255}
          /\ sig \in 0..MaxSignal
          /\ ws = 0 /\ pid = 0
    /\ ret = NoValue
    /\ op = "none" /\ out = ""
    /\ ExitIdle

\* The status of a waited-for process is decoded.
Decode ==
    /\ pc = "start" /\ caller = "wait"
    /\ ret' = NewExternalCmdExit(name, ws, pid)
    /\ pc' = "returned"
    /\ UNCHANGED <<errors, produced, finished, result, caller, name, ws, pid,
                   exit, sig, exc, indent, op, out>>

\* A status is fabricated from an exit code and a signal.
Fake ==
    /\ pc = "start" /\ caller = "fake"
    /\ ret' = FakeExternalCmdExit(name, exit, sig)
    /\ pc' = "returned"
    /\ UNCHANGED <<errors, produced, finished, result, caller, name, ws, pid,
                   exit, sig, exc, indent, op, out>>

\* The failure's message is read.
ExitShowError ==
    /\ pc = "returned" /\ op = "none"
    /\ ret # NilCause
    /\ out' = ExternalCmdExit_Error(ret)
    /\ op' = "Error"
    /\ UNCHANGED <<pc, errors, produced, finished, result, caller, name, ws, pid,
                   exit, sig, ret, exc, indent>>

NextExit == Decode \/ Fake \/ ExitShowError

---------------------------------------------------------------------------
(* Observations of one Exception value *)

ValueIdle ==
    /\ errors = <<>> /\ produced = <<>> /\ finished = <<>> /\ result = NoValue
    /\ caller = "none" /\ name = "" /\ ws = 0 /\ pid = 0 /\ exit = 0 /\ sig = 0
    /\ ret = NoValue

InitValue ==
    /\ pc = "value"
    /\ exc \in Exceptions
    /\ indent \in Indents
    /\ op = "none" /\ out = ""
    /\ ValueIdle

Observe(what, value) ==
    /\ op' = what
    /\ out' = value
    /\ UNCHANGED <<pc, errors, produced, finished, result, caller, name, ws, pid,
                   exit, sig, ret, exc, indent>>

CallBool ==
    /\ pc = "value" /\ op = "none"
    /\ Observe("Bool", Exception_Bool(exc))

CallRepr ==
    /\ pc = "value" /\ op = "none"
    /\ Observe("Repr", Exception_Repr(exc, indent))

\* Error is called on failures only: the cause of a success is nil.
CallError ==
    /\ pc = "value" /\ op = "none"
    /\ exc.Cause # NilCause
    /\ Observe("Error", Exception_Error(exc))

CallFlowError ==
    /\ pc = "value" /\ op = "none"
    /\ exc.Cause.kind = "Flow"
    /\ Observe("Flow.Error", Flow_Error(exc.Cause.f))

CallFlowRepr ==
    /\ pc = "value" /\ op = "none"
    /\ exc.Cause.kind = "Flow"
    /\ Observe("Flow.Repr", Flow_Repr(exc.Cause.f, indent))

NextValue == CallBool \/ CallRepr \/ CallError \/ CallFlowError \/ CallFlowRepr

---------------------------------------------------------------------------

Init == InitPipeline \/ InitExit \/ InitValue

Next == NextPipeline \/ NextExit \/ NextValue

Spec == Init /\ [][Next]_vars

---------------------------------------------------------------------------
(* Properties *)

\* A stage result that counts as success: a nil reference or a nil cause.
Succeeded(e) == e = NilPtr \/ e.Cause = NilCause

\* The strings of ss joined by sep.
RECURSIVE JoinStrings(_, _)
JoinStrings(ss, sep) ==
    IF Len(ss) = 0 THEN ""
    ELSE IF Len(ss) = 1 THEN ss[1]
    ELSE ss[1] \o sep \o JoinStrings(Tail(ss), sep)

\* C1: once the pipeline has joined, the aggregate of its slot array is the OK
\* sentinel if every slot is a nil reference or has a nil cause (whatever the
\* length, the empty pipeline included), and otherwise a new Exception whose
\* cause is a PipelineError holding exactly that slot array: same length,
\* same order, the nil and OK slots in place.  No PipelineError is built over
\* an all-success array.
C1_Aggregate ==
    pc = "joined" =>
        IF \A i \in 1..Len(errors) : Succeeded(errors[i])
        THEN result = OK
        ELSE /\ result.kind = "Exception"
             /\ result.Cause.kind = "PipelineError"
             /\ Len(result.Cause.Errors) = Len(errors)
             /\ \A i \in 1..Len(errors) : result.Cause.Errors[i] = errors[i]

C1_Witness ==
    /\ pc = "joined"
    /\ Len(errors) = 3
    /\ errors[1] = NilPtr /\ errors[2] = errA /\ errors[3] = OK
    /\ result.Cause = PipelineError(<<NilPtr, errA, OK>>)

\* C2: allok of a slot array is true exactly when every element is a nil
\* reference or an Exception with a nil cause: true of the empty array, false
\* as soon as one element at any position has a non-nil cause.
C2_Allok ==
    /\ allok(errors) <=> \A i \in 1..Len(errors) : Succeeded(errors[i])
    /\ allok(<<>>)
    /\ allok(<<OK, OK>>)
    /\ ~allok(<<OK, errA>>)

C2_Witness ==
    /\ pc = "joined"
    /\ Len(errors) = 3
    /\ Succeeded(errors[1]) /\ Succeeded(errors[2]) /\ ~Succeeded(errors[3])
    /\ ~allok(errors)

\* How slot e of a PipelineError renders in its message.
SlotMessage(e) == IF Succeeded(e) THEN "<nil>" ELSE Exception_Error(e)

\* C3: whatever order the stages completed in, the aggregate exists only once
\* all N stages have completed, and the message of the aggregated
\* PipelineError is "(" + the N slot renderings joined by " | " + ")", slot i
\* being "<nil>" if stage i succeeded and stage i's own message otherwise.
C3_MessageInIndexOrder ==
    /\ pc = "joined" => \A i \in 1..Len(errors) : Done(i)
    /\ (pc = "joined" /\ op = "Error") =>
          out = "(" \o JoinStrings([i \in 1..Len(produced) |->
                                       SlotMessage(produced[i])], " | ") \o ")"

C3_Witness ==
    /\ pc = "joined" /\ op = "Error"
    /\ finished = <<3, 1, 2>>
    /\ produced = <<NilPtr, errA, OK>>
    /\ out = "(<nil> | errA | <nil>)"

\* C4: NewExternalCmdExit(name, ws, pid) returns nil exactly when ws is a
\* normal termination (low seven bits zero) with exit code (bits 8..15) zero;
\* for every other raw status it returns an ExternalCmdExit carrying ws and
\* name.
C4_NilIffExitZero ==
    (pc = "returned" /\ caller = "wait") =>
        /\ ret = NilCause <=> (ws % 128 = 0 /\ (ws \div 256) % 256 = 0)
        /\ ret # NilCause =>
              /\ ret.kind = "ExternalCmdExit"
              /\ ret.WaitStatus = ws
              /\ ret.CmdName = name

C4_Witness ==
    /\ pc = "returned" /\ caller = "wait"
    /\ ws = 65536 /\ pid = 4242
    /\ ret = NilCause

\* The wait status the kernel reports for a process that ended with exit code
\* e (s = 0) or was killed by signal s.
RealWaitStatus(e, s) == IF s = 0 THEN e * 256 ELSE s

SameOutcome(a, b) ==
    \/ a = NilCause /\ b = NilCause
    \/ /\ a # NilCause /\ b # NilCause
       /\ ExternalCmdExit_Error(a) = ExternalCmdExit_Error(b)

\* C5: FakeExternalCmdExit(name, exit, sig) has the outcome (no failure, or a
\* failure with the same message) that NewExternalCmdExit gives for the real
\* wait status of a process that ended with that exit code or that signal.
C5_FakeDecodesAsReal ==
    (pc = "returned" /\ caller = "fake" /\ (exit = 0 \/ sig = 0)) =>
        \A p \in Pids :
            SameOutcome(ret, NewExternalCmdExit(name, RealWaitStatus(exit, sig), p))

\* C6: in every failure NewExternalCmdExit(name, ws, pid) returns, Pid is the
\* given pid if ws is a stopped status (low byte 0x7F) and 0 otherwise, so a
\* non-zero Pid means the process was stopped.
C6_PidOnlyWhenStopped ==
    (pc = "returned" /\ caller = "wait" /\ ret # NilCause) =>
        /\ ret.Pid = IF ws % 256 = 127 THEN pid ELSE 0
        /\ ret.Pid # 0 => ws % 256 = 127

C6_Witness ==
    /\ pc = "returned" /\ caller = "wait"
    /\ ws = 4991 /\ pid = 4242
    /\ ret.Pid = 4242

\* The message C7 gives a failure with raw status w, name n and pid p.
ExpectedExitMessage(w, n, p) ==
    IF w % 128 = 0
    THEN Quote(n) \o " exited with " \o ToString((w \div 256) % 256)
    ELSE IF w % 128 # 127
    THEN Quote(n) \o " killed by signal " \o SignalString(w % 128)
            \o (IF (w \div 128) % 2 = 1 THEN " (core dumped)" ELSE "")
    ELSE IF w % 256 = 127
    THEN Quote(n) \o " stopped by signal " \o SignalString((w \div 256) % 256)
            \o " (pid=" \o ToString(p) \o ")"
            \o (IF (w \div 256) % 256 = 5
                THEN " (trapped " \o ToString(w \div 65536) \o ")"
                ELSE "")
    ELSE Quote(n) \o " has unknown WaitStatus " \o ToString(w)

\* C7: for every raw status ExternalCmdExit.Error returns a message, of the
\* one form its kind selects: "<quoted cmd> exited with <code>" for a normal
\* exit; "<quoted cmd> killed by signal <name>", plus " (core dumped)" exactly
\* when the core bit is set, for a signal termination; "<quoted cmd> stopped
\* by signal <name> (pid=<pid>)", plus " (trapped <cause>)" exactly when there
\* is a trap cause (the stop signal is SIGTRAP), for a stopped status; and the
\* catch-all with the command and the raw status for any other shape.
C7_ExitMessage ==
    (pc = "returned" /\ op = "Error") =>
        /\ ~Crashed(out)
        /\ out = ExpectedExitMessage(ret.WaitStatus, ret.CmdName, ret.Pid)

C7_Witness ==
    /\ pc = "returned" /\ op = "Error" /\ caller = "wait"
    /\ ws = 198015 /\ pid = 4242 /\ name = "ls"
    /\ out = "<q:ls> stopped by signal trace/breakpoint trap (pid=4242) (trapped 3)"

\* C8: for every Exception, Bool() is true exactly when the cause is nil and
\* Repr() is "$ok" exactly then; with a non-nil cause Repr() is the cause's
\* own Repr if the cause is a Flow or a PipelineError, and otherwise
\* "?(error " + the quoted message of the cause + ")".
C8_BoolAndRepr ==
    /\ (pc = "value" /\ op = "Bool") => (out <=> exc.Cause = NilCause)
    /\ (pc = "value" /\ op = "Repr") =>
          /\ out = "$ok" <=> exc.Cause = NilCause
          /\ exc.Cause.kind = "Flow" => out = Flow_Repr(exc.Cause.f, indent)
          /\ exc.Cause.kind = "PipelineError" =>
                out = PipelineError_Repr(exc.Cause, indent)
          /\ exc.Cause.kind \in {"error", "ExternalCmdExit"} =>
                out = "?(error " \o Quote(Cause_Error(exc.Cause)) \o ")"

C8_Witness ==
    /\ pc = "value" /\ op = "Repr"
    /\ exc = Exception(PipelineError(<<OK, errA>>), NilTraceback)
    /\ indent = 0
    /\ out = "?(multi-error $ok ?(error <q:errA>))"

\* The message C9 gives Flow tag f.
ExpectedFlowError(f) ==
    IF f = 0 THEN "return"
    ELSE IF f = 1 THEN "break"
    ELSE IF f = 2 THEN "continue"
    ELSE "!(BAD FLOW: " \o ToString(f) \o ")"

\* C9: Flow(f).Error() is "return", "break", "continue" for tags 0, 1, 2 and,
\* for every other tag, a returned string holding "BAD FLOW" and the raw tag;
\* Repr() is "?(" + Error() + ")".
C9_FlowError ==
    /\ (pc = "value" /\ op = "Flow.Error") => out = ExpectedFlowError(exc.Cause.f)
    /\ (pc = "value" /\ op = "Flow.Repr") =>
          out = "?(" \o ExpectedFlowError(exc.Cause.f) \o ")"

\* C10: PipelineError.Repr yields a rendering, and does not fail on a nil
\* reference, for every slot array a PipelineError may hold and
\* PipelineError.Error accepts: slots that are each a nil reference, an OK
\* Exception or a real failure.
C10_ReprOfEverySlotArray ==
    /\ (pc = "joined" /\ op = "Repr" /\ result.Cause.kind = "PipelineError") =>
          ~Crashed(out)
    /\ (pc = "value" /\ op = "Repr" /\ exc.Cause.kind = "PipelineError"
          /\ ~Crashed(PipelineError_Error(exc.Cause))) =>
          ~Crashed(out)

====
